---------------------------- MODULE Spec2Model ----------------------------
(***************************************************************************)
(* A model of GA3.py: nine helper functions that build request bodies or   *)
(* return literal strings, the module-level load_dotenv() call, and the    *)
(* __main__ block that prints the nine outputs.                            *)
(*                                                                         *)
(* Text is a sequence of symbols.  A symbol is one character ("a", "\"",   *)
(* "\\", "\n", ...) or a run of plain characters of a literal of the       *)
(* source written as one symbol ("gpt-4o-mini"): such a run holds no       *)
(* quote, backslash, brace, bracket, comma, colon or white space that the  *)
(* model's readers act on.                                                 *)
(***************************************************************************)
EXTENDS Integers, Sequences, FiniteSets, TLC

VARIABLES
    loaded,     \* the module body has run (load_dotenv() included)
    environ,    \* os.environ, restricted to AIPROXY_TOKEN: a token or NoValue
    effects,    \* what the process did to the outside world, in order
    calls,      \* the calls made so far, in order, each with what it returned
    last,       \* the most recent call
    pc,         \* __main__: 0 not run; k in 1..9 about to run step k; 10 done
    crashed,    \* __main__: 0, or the step whose call raised
    stdout      \* __main__: the objects printed so far

vars == <<loaded, environ, effects, calls, last, pc, crashed, stdout>>

----------------------------------------------------------------------------
(* Bounds of the model.                                                     *)

MaxFields == 3      \* length of the list passed to generate_openai_address_request
MaxMessages == 2    \* length of the list passed to generate_embedding_request
MaxText == 2        \* length of a string argument
MaxBytes == 3       \* length of the image file
MaxTokens == 2      \* largest prompt_tokens value a response carries
MaxPhrases == 3     \* size of the embeddings mapping
MaxCalls == 2       \* calls made on the imported module

----------------------------------------------------------------------------
(* Python values: tagged tuples.  A dict is the sequence of its            *)
(* <<key, value>> pairs in insertion order, keys distinct.                  *)

PyStr(s)  == <<"str", s>>
PyInt(n)  == <<"int", n>>
PyBool(b) == <<"bool", b>>
PyNone    == <<"none">>
PyList(xs) == <<"list", xs>>
PyDict(ps) == <<"dict", ps>>
Lit(s)    == PyStr(<<s>>)
Tag(x)    == x[1]
Val(x)    == x[2]

Range(s) == {s[i] : i \in DOMAIN s}
SeqsUpTo(S, n) == UNION {[1..k -> S] : k \in 0..n}

RECURSIVE Concat(_)
Concat(ss) == IF ss = <<>> THEN <<>> ELSE Head(ss) \o Concat(Tail(ss))

Keys(ps) == [i \in DOMAIN ps |-> ps[i][1]]
HasKey(ps, k) == \E i \in DOMAIN ps : ps[i][1] = k
Lookup(ps, k) == ps[CHOOSE i \in DOMAIN ps : ps[i][1] = k][2]

\* d[k] = v on a dict: an existing key keeps its place and takes the new value
DictSet(ps, k, v) ==
    IF HasKey(ps, k)
    THEN [i \in DOMAIN ps |-> IF ps[i][1] = k THEN <<k, v>> ELSE ps[i]]
    ELSE Append(ps, <<k, v>>)

\* the outcome of an expression: a value, or an exception raised
Return(v) == [kind |-> "return", value |-> v]
Raise(e)  == [kind |-> "raise", value |-> Lit(e)]

\* x[k] for a string key k
Subscript(x, k) ==
    IF Tag(x) = "dict"
    THEN IF HasKey(Val(x), k) THEN Return(Lookup(Val(x), k)) ELSE Raise("KeyError")
    ELSE Raise("TypeError")

\* for item in x
Iterate(x) ==
    CASE Tag(x) = "list" -> Return(Val(x))
      [] Tag(x) = "dict" -> Return(Keys(Val(x)))
      [] Tag(x) = "str"  -> Return([i \in DOMAIN Val(x) |-> PyStr(<<Val(x)[i]>>)])
      [] OTHER -> Raise("TypeError")

Hashable(x) == Tag(x) \notin {"list", "dict"}

----------------------------------------------------------------------------
(* json.dumps(obj, indent=2) and json.loads.                                *)

NonAscii == "é"
NonAsciiEscape == <<"\\", "u", "0", "0", "e", "9">>

\* py_encode_basestring_ascii, one symbol
EscapeChar(c) ==
    CASE c = "\"" -> <<"\\", "\"">>
      [] c = "\\" -> <<"\\", "\\">>
      [] c = "\n" -> <<"\\", "n">>
      [] c = NonAscii -> NonAsciiEscape
      [] OTHER -> <<c>>

EncodeString(s) == <<"\"">> \o Concat([i \in DOMAIN s |-> EscapeChar(s[i])]) \o <<"\"">>

Newline(level) == <<"\n">> \o [i \in 1..(2 * level) |-> " "]

RECURSIVE JoinItems(_, _)
JoinItems(parts, sep) ==
    IF Len(parts) = 1 THEN parts[1]
    ELSE parts[1] \o sep \o JoinItems(Tail(parts), sep)

RECURSIVE Encode(_, _)
Encode(v, level) ==
    CASE Tag(v) = "str"  -> EncodeString(Val(v))
      [] Tag(v) = "int"  -> <<ToString(Val(v))>>
      [] Tag(v) = "bool" -> IF Val(v) THEN <<"true">> ELSE <<"false">>
      [] Tag(v) = "none" -> <<"null">>
      [] Tag(v) = "list" ->
            IF Val(v) = <<>> THEN <<"[", "]">>
            ELSE <<"[">> \o Newline(level + 1)
                 \o JoinItems([i \in DOMAIN Val(v) |-> Encode(Val(v)[i], level + 1)],
                              <<",">> \o Newline(level + 1))
                 \o Newline(level) \o <<"]">>
      [] Tag(v) = "dict" ->
            IF Val(v) = <<>> THEN <<"{", "}">>
            ELSE <<"{">> \o Newline(level + 1)
                 \o JoinItems([i \in DOMAIN Val(v) |->
                                 EncodeString(Val(Val(v)[i][1])) \o <<":", " ">>
                                 \o Encode(Val(v)[i][2], level + 1)],
                              <<",">> \o Newline(level + 1))
                 \o Newline(level) \o <<"}">>

json_dumps(obj) == Encode(obj, 0)


\* json.loads: a recursive-descent reader of the text json_dumps writes
Whitespace == {" ", "\n"}
ParseFail == [ok |-> FALSE, v |-> PyNone, next |-> 0]
ParseOk(v, n) == [ok |-> TRUE, v |-> v, next |-> n]
At(t, i) == IF i \in DOMAIN t THEN t[i] ELSE "<eof>"

SkipWs(t, i) ==
    CHOOSE j \in i..(Len(t) + 1) :
        /\ At(t, j) \notin Whitespace
        /\ \A k \in i..(j - 1) : t[k] \in Whitespace

NumberSymbols == {ToString(n) : n \in 0..MaxTokens}
NumberOf(c) == CHOOSE n \in 0..MaxTokens : ToString(n) = c

\* the body of a string from position i (after the opening quote)
RECURSIVE ParseChars(_, _, _)
ParseChars(t, i, acc) ==
    LET c == At(t, i) IN
    CASE c = "\"" -> ParseOk(PyStr(acc), i + 1)
      [] c = "\\" ->
            LET d == At(t, i + 1) IN
            CASE d = "\"" -> ParseChars(t, i + 2, Append(acc, "\""))
              [] d = "\\" -> ParseChars(t, i + 2, Append(acc, "\\"))
              [] d = "n"  -> ParseChars(t, i + 2, Append(acc, "\n"))
              [] d = "u"  ->
                    IF i + 5 <= Len(t) /\ SubSeq(t, i, i + 5) = NonAsciiEscape
                    THEN ParseChars(t, i + 6, Append(acc, NonAscii))
                    ELSE ParseFail
              [] OTHER -> ParseFail
      [] c \in {"\n", "<eof>"} -> ParseFail
      [] OTHER -> ParseChars(t, i + 1, Append(acc, c))

RECURSIVE ParseValue(_, _), ParseArray(_, _, _), ParseObject(_, _, _)
ParseValue(t, i0) ==
    LET i == SkipWs(t, i0)
        c == At(t, i)
    IN  CASE c = "\"" -> ParseChars(t, i + 1, <<>>)
          [] c = "[" ->
                IF At(t, SkipWs(t, i + 1)) = "]"
                THEN ParseOk(PyList(<<>>), SkipWs(t, i + 1) + 1)
                ELSE ParseArray(t, i + 1, <<>>)
          [] c = "{" ->
                IF At(t, SkipWs(t, i + 1)) = "}"
                THEN ParseOk(PyDict(<<>>), SkipWs(t, i + 1) + 1)
                ELSE ParseObject(t, i + 1, <<>>)
          [] c = "true"  -> ParseOk(PyBool(TRUE), i + 1)
          [] c = "false" -> ParseOk(PyBool(FALSE), i + 1)
          [] c = "null"  -> ParseOk(PyNone, i + 1)
          [] c \in NumberSymbols -> ParseOk(PyInt(NumberOf(c)), i + 1)
          [] OTHER -> ParseFail

\* the elements of an array from position i, one at least
ParseArray(t, i, acc) ==
    LET r == ParseValue(t, i) IN
    IF ~r.ok THEN ParseFail
    ELSE LET j == SkipWs(t, r.next) IN
         CASE At(t, j) = "," -> ParseArray(t, j + 1, Append(acc, r.v))
           [] At(t, j) = "]" -> ParseOk(PyList(Append(acc, r.v)), j + 1)
           [] OTHER -> ParseFail

\* the members of an object from position i, one at least; a repeated key
\* keeps its last value
ParseObject(t, i, acc) ==
    LET k == SkipWs(t, i) IN
    IF At(t, k) # "\"" THEN ParseFail
    ELSE LET key == ParseChars(t, k + 1, <<>>) IN
         IF ~key.ok \/ At(t, SkipWs(t, key.next)) # ":" THEN ParseFail
         ELSE LET r == ParseValue(t, SkipWs(t, key.next) + 1) IN
              IF ~r.ok THEN ParseFail
              ELSE LET j == SkipWs(t, r.next) IN
                   CASE At(t, j) = "," -> ParseObject(t, j + 1, DictSet(acc, key.v, r.v))
                     [] At(t, j) = "}" -> ParseOk(PyDict(DictSet(acc, key.v, r.v)), j + 1)
                     [] OTHER -> ParseFail

json_loads(t) ==
    LET r == ParseValue(t, 1) IN
    IF r.ok /\ SkipWs(t, r.next) = Len(t) + 1 THEN Return(r.v) ELSE Raise("JSONDecodeError")

----------------------------------------------------------------------------
(* base64.b64encode, and the decoding the data URL's reader applies.        *)

B64Alphabet ==
    << "A", "B", "C", "D", "E", "F", "G", "H", "I", "J", "K", "L", "M",
       "N", "O", "P", "Q", "R", "S", "T", "U", "V", "W", "X", "Y", "Z",
       "a", "b", "c", "d", "e", "f", "g", "h", "i", "j", "k", "l", "m",
       "n", "o", "p", "q", "r", "s", "t", "u", "v", "w", "x", "y", "z",
       "0", "1", "2", "3", "4", "5", "6", "7", "8", "9", "+", "/" >>

B64Char(n) == B64Alphabet[n + 1]

\* one group of one to three bytes: four symbols, "=" for the missing bytes
B64Group(g) ==
    LET b(i) == IF i <= Len(g) THEN g[i] ELSE 0
        n == b(1) * 65536 + b(2) * 256 + b(3)
        c1 == B64Char(n \div 262144)
        c2 == B64Char((n \div 4096) % 64)
        c3 == B64Char((n \div 64) % 64)
        c4 == B64Char(n % 64)
    IN  CASE Len(g) = 1 -> <<c1, c2, "=", "=">>
          [] Len(g) = 2 -> <<c1, c2, c3, "=">>
          [] OTHER      -> <<c1, c2, c3, c4>>

RECURSIVE b64encode(_)
b64encode(bytes) ==
    IF bytes = <<>> THEN <<>>
    ELSE IF Len(bytes) <= 3 THEN B64Group(bytes)
    ELSE B64Group(SubSeq(bytes, 1, 3)) \o b64encode(SubSeq(bytes, 4, Len(bytes)))

B64Index(c) == (CHOOSE i \in DOMAIN B64Alphabet : B64Alphabet[i] = c) - 1
IsB64Char(c) == \E i \in DOMAIN B64Alphabet : B64Alphabet[i] = c

\* one group of four symbols back to its bytes
B64Ungroup(q) ==
    LET pad == Cardinality({i \in 3..4 : q[i] = "="})
        v(i) == IF q[i] = "=" THEN 0 ELSE B64Index(q[i])
        n == v(1) * 262144 + v(2) * 4096 + v(3) * 64 + v(4)
        three == <<n \div 65536, (n \div 256) % 256, n % 256>>
    IN  SubSeq(three, 1, 3 - pad)

B64GroupOk(q) ==
    /\ IsB64Char(q[1]) /\ IsB64Char(q[2])
    /\ IsB64Char(q[3]) \/ (q[3] = "=" /\ q[4] = "=")
    /\ IsB64Char(q[4]) \/ q[4] = "="

RECURSIVE b64decode(_)
b64decode(s) ==
    IF s = <<>> THEN Return(<<>>)
    ELSE IF Len(s) < 4 \/ ~B64GroupOk(SubSeq(s, 1, 4)) THEN Raise("binascii.Error")
    ELSE LET rest == b64decode(SubSeq(s, 5, Len(s))) IN
         IF rest.kind = "raise" THEN rest
         ELSE IF rest.value # <<>> /\ s[4] = "=" THEN Raise("binascii.Error")
         ELSE Return(B64Ungroup(SubSeq(s, 1, 4)) \o rest.value)

----------------------------------------------------------------------------
(* The outside world.                                                       *)

NoValue == "<unset>"
NoEffects == <<>>
Effect(kind, by, target, data) == [kind |-> kind, by |-> by, target |-> target, data |-> data]

\* what a function did: its outcome and the effects it had, in order
Did(out, eff) == [out |-> out, eff |-> eff]

\* load_dotenv() with the default override=False: reads the .env file when
\* there is one, and sets each variable of it the environment does not hold
load_dotenv(dotenv) ==
    IF ~dotenv.exists THEN Did(Return(PyBool(FALSE)), NoEffects)
    ELSE Did(Return(PyBool(dotenv.token # NoValue)),
             <<Effect("read_file", "load_dotenv", ".env", PyNone)>>
             \o IF dotenv.token # NoValue /\ environ = NoValue
                THEN <<Effect("set_env", "load_dotenv", "AIPROXY_TOKEN", Lit(dotenv.token))>>
                ELSE NoEffects)

\* os.environ after the effects
RECURSIVE EnvAfter(_, _)
EnvAfter(env, eff) ==
    IF eff = <<>> THEN env
    ELSE EnvAfter(IF Head(eff).kind = "set_env" THEN Val(Head(eff).data)[1] ELSE env, Tail(eff))

----------------------------------------------------------------------------
(* The functions of the module.  Each yields Did(outcome, effects).         *)

\* generate_sentiment_test_code: the f-string, the text put in as it is
SentimentPrelude == "import httpx; def analyze_sentiment(): url, headers; payload = {model: gpt-4o-mini, messages: ["
SentimentSystemMessage == "{role: system, content: Analyze the sentiment of the following text and classify it as GOOD, BAD, or NEUTRAL.},"
SentimentUserOpen == "{role: user, content: "
SentimentEpilogue == "]}; response = httpx.post(url, json=payload, headers=headers); response.raise_for_status(); print(response.json()); if __name__ == __main__: analyze_sentiment()"

generate_sentiment_test_code(sample_meaningless_text) ==
    Did(Return(PyStr(<<"\n", SentimentPrelude, "\n", SentimentSystemMessage, "\n", SentimentUserOpen, "\"">>
                     \o Val(sample_meaningless_text)
                     \o <<"\"", "}", "\n", SentimentEpilogue, "\n">>)),
        NoEffects)

\* requests.post(api_url, headers=headers, json=payload): what comes back
ApiUrl == "http://aiproxy.sanand.workers.dev/openai/v1/chat/completions"

\* the request of lines 78-91: one POST, the token of the environment in its header
TokenPost(text) ==
    LET headers == PyDict(<< <<Lit("Authorization"), PyStr(<<"Bearer ", IF environ = NoValue THEN "None" ELSE environ>>)>>,
                             <<Lit("Content-Type"), Lit("application/json")>> >>)
        payload == PyDict(<< <<Lit("model"), Lit("gpt-4o-mini")>>,
                             <<Lit("messages"),
                               PyList(<< PyDict(<< <<Lit("role"), Lit("user")>>,
                                                   <<Lit("content"), text>> >>) >>)>> >>)
    IN  Effect("http_post", "process_and_count_tokens", ApiUrl,
               PyDict(<< <<Lit("headers"), headers>>, <<Lit("json"), payload>> >>))

\* TokenCount with a default in place of the fault: .get("usage", {}).get("prompt_tokens", 0)
TokenCountDefault(net) ==
    LET response_json == json_loads(net.body)
        usage == Subscript(response_json.value, Lit("usage"))
        prompt_tokens == Subscript(usage.value, Lit("prompt_tokens"))
    IN  IF response_json.kind = "raise" \/ usage.kind = "raise" \/ prompt_tokens.kind = "raise"
        THEN Return(PyInt(0))
        ELSE prompt_tokens

\* response.json()["usage"]["prompt_tokens"]: the status is not looked at
TokenCount(net) ==
    LET response_json == json_loads(net.body)
        usage == Subscript(response_json.value, Lit("usage"))
        prompt_tokens == Subscript(usage.value, Lit("prompt_tokens"))
    IN  IF response_json.kind = "raise" THEN response_json
        ELSE IF usage.kind = "raise" THEN usage
        ELSE prompt_tokens

\* process_and_count_tokens with the request sent again after a status that is not 200
process_and_count_tokens_retry(text, net) ==
    LET posts == IF net.connected /\ net.status # 200
                 THEN <<TokenPost(text), TokenPost(text)>> ELSE <<TokenPost(text)>>
    IN  IF ~net.connected THEN Did(Raise("ConnectionError"), posts)
        ELSE Did(TokenCount(net), posts)

process_and_count_tokens(text, net) ==
    IF ~net.connected THEN Did(Raise("ConnectionError"), <<TokenPost(text)>>)
    ELSE Did(TokenCount(net), <<TokenPost(text)>>)

\* RequiredFields with the type put in bare: {item["field"]: item["type"] for item in fields}
RECURSIVE RequiredFieldsBare(_, _)
RequiredFieldsBare(items, acc) ==
    IF items = <<>> THEN Return(PyDict(acc))
    ELSE LET field == Subscript(Head(items), Lit("field"))
             type  == Subscript(Head(items), Lit("type"))
         IN  IF field.kind = "raise" THEN field
             ELSE IF type.kind = "raise" THEN type
             ELSE IF ~Hashable(field.value) THEN Raise("TypeError")
             ELSE RequiredFieldsBare(Tail(items), DictSet(acc, field.value, type.value))

\* RequiredFields with a repeated name taken out and put in again, so that it
\* stands where it came last: d.pop(key, None) before d[key] = value
RECURSIVE RequiredFieldsReinserted(_, _)
RequiredFieldsReinserted(items, acc) ==
    IF items = <<>> THEN Return(PyDict(acc))
    ELSE LET field == Subscript(Head(items), Lit("field"))
             type  == Subscript(Head(items), Lit("type"))
         IN  IF field.kind = "raise" THEN field
             ELSE IF type.kind = "raise" THEN type
             ELSE IF ~Hashable(field.value) THEN Raise("TypeError")
             ELSE RequiredFieldsReinserted(Tail(items),
                     Append(SelectSeq(acc, LAMBDA p : p[1] # field.value),
                            <<field.value, PyDict(<< <<Lit("type"), type.value>> >>)>>))

\* the dict comprehension {item["field"]: {"type": item["type"]} for item in fields}
RECURSIVE RequiredFields(_, _)
RequiredFields(items, acc) ==
    IF items = <<>> THEN Return(PyDict(acc))
    ELSE LET field == Subscript(Head(items), Lit("field"))
             type  == Subscript(Head(items), Lit("type"))
         IN  IF field.kind = "raise" THEN field
             ELSE IF type.kind = "raise" THEN type
             ELSE IF ~Hashable(field.value) THEN Raise("TypeError")
             ELSE RequiredFields(Tail(items),
                                 DictSet(acc, field.value, PyDict(<< <<Lit("type"), type.value>> >>)))

RequiredList(required_fields) == PyList(Keys(Val(required_fields)))

generate_openai_address_request(fields) ==
    LET items == Iterate(fields)
        required_fields == RequiredFields(items.value, <<>>)
        json_body ==
            PyDict(<< <<Lit("model"), Lit("gpt-4o-mini")>>,
                      <<Lit("messages"),
                        PyList(<< PyDict(<< <<Lit("role"), Lit("system")>>,
                                            <<Lit("content"), Lit("Respond in JSON")>> >>),
                                  PyDict(<< <<Lit("role"), Lit("user")>>,
                                            <<Lit("content"), Lit("Generate 10 random addresses in the US")>> >>) >>)>>,
                      <<Lit("response_format"),
                        PyDict(<< <<Lit("type"), Lit("object")>>,
                                  <<Lit("properties"),
                                    PyDict(<< <<Lit("addresses"),
                                                PyDict(<< <<Lit("type"), Lit("array")>>,
                                                          <<Lit("items"),
                                                            PyDict(<< <<Lit("type"), Lit("object")>>,
                                                                      <<Lit("properties"), required_fields.value>>,
                                                                      <<Lit("required"), RequiredList(required_fields.value)>>,
                                                                      <<Lit("additionalProperties"), PyBool(FALSE)>> >>)>> >>)>> >>)>>,
                                  <<Lit("required"), PyList(<<Lit("addresses")>>)>>,
                                  <<Lit("additionalProperties"), PyBool(FALSE)>> >>)>> >>)
    IN  IF items.kind = "raise" THEN Did(items, NoEffects)
        ELSE IF required_fields.kind = "raise" THEN Did(required_fields, NoEffects)
        ELSE Did(Return(PyStr(json_dumps(json_body))), NoEffects)

\* base64_encoding: file is what open(image_path, "rb") finds
DataUrlPrefix == "data:image/png;base64,"

\* ImageUrl with the padding taken off the text
ImageUrlStripped(bytes) ==
    PyStr(<<DataUrlPrefix>> \o SelectSeq(b64encode(bytes), LAMBDA c : c # "="))

\* base64.b64encode(image_file.read()).decode("utf-8") behind the prefix
ImageUrl(bytes) == PyStr(<<DataUrlPrefix>> \o b64encode(bytes))

base64_encoding(image_path, file) ==
    LET image_base64_url == ImageUrl(file.bytes)
        json_body ==
            PyDict(<< <<Lit("model"), Lit("gpt-4o-mini")>>,
                      <<Lit("messages"),
                        PyList(<< PyDict(<< <<Lit("role"), Lit("user")>>,
                                            <<Lit("content"),
                                              PyList(<< PyDict(<< <<Lit("type"), Lit("text")>>,
                                                                  <<Lit("text"), Lit("Extract text from this image.")>> >>),
                                                        PyDict(<< <<Lit("type"), Lit("image_url")>>,
                                                                  <<Lit("image_url"),
                                                                    PyDict(<< <<Lit("url"), image_base64_url>> >>)>> >>) >>)>> >>) >>)>> >>)
    IN  IF ~file.exists THEN Did(Raise("FileNotFoundError"), NoEffects)
        ELSE Did(Return(PyStr(json_dumps(json_body))),
                 <<Effect("read_file", "base64_encoding", Val(image_path)[1], PyNone)>>)

\* generate_embedding_request with repeated messages sent once
RECURSIVE Unique(_)
Unique(xs) ==
    IF xs = <<>> THEN <<>>
    ELSE LET front == Unique(SubSeq(xs, 1, Len(xs) - 1))
         IN  IF xs[Len(xs)] \in Range(front) THEN front ELSE Append(front, xs[Len(xs)])

generate_embedding_request_dedup(messages) ==
    LET json_body == PyDict(<< <<Lit("model"), Lit("text-embedding-3-small")>>,
                               <<Lit("input"), PyList(Unique(Val(messages)))>> >>)
    IN  Did(Return(PyStr(json_dumps(json_body))), NoEffects)

\* generate_embedding_request with a module-level list that keeps the messages
\* of the calls before
RECURSIVE Accumulated(_)
Accumulated(history) ==
    IF history = <<>> THEN <<>>
    ELSE Accumulated(SubSeq(history, 1, Len(history) - 1))
         \o IF history[Len(history)].fn = "generate_embedding_request"
            THEN Val(history[Len(history)].arg) ELSE <<>>

generate_embedding_request_accumulating(messages) ==
    LET json_body == PyDict(<< <<Lit("model"), Lit("text-embedding-3-small")>>,
                               <<Lit("input"), PyList(Accumulated(calls) \o Val(messages))>> >>)
    IN  Did(Return(PyStr(json_dumps(json_body))), NoEffects)

generate_embedding_request(messages) ==
    LET json_body == PyDict(<< <<Lit("model"), Lit("text-embedding-3-small")>>,
                               <<Lit("input"), messages>> >>)
    IN  Did(Return(PyStr(json_dumps(json_body))), NoEffects)

MostSimilarSource == "import numpy as np; from itertools import combinations; def cosine_similarity(vec1, vec2); def most_similar(embeddings)"
return_most_similar_function == Did(Return(Lit(MostSimilarSource)), NoEffects)

\* docs_similarity_api_endpoint with a request to the service it names
docs_similarity_api_endpoint_ping ==
    Did(Return(Lit("https://tds-project-2-ga3-7.vercel.app/similarity")),
        <<Effect("http_post", "docs_similarity_api_endpoint", "https://tds-project-2-ga3-7.vercel.app/similarity", PyNone)>>)

docs_similarity_api_endpoint == Did(Return(Lit("https://tds-project-2-ga3-7.vercel.app/similarity")), NoEffects)
employee_queries_api_endpoint == Did(Return(Lit("https://tds-project-2-ga3-8.vercel.app/execute")), NoEffects)
generate_prompt == Did(Return(Lit("I am designing an AI-based chatbot that correctly answers questions with Yes when required. ...")), NoEffects)

----------------------------------------------------------------------------
(* The code return_most_similar_function emits, run on a mapping from       *)
(* phrases to vectors.  A vector is a pair of integers of integral norm, so *)
(* that the floating-point quotients order as the exact ones do.            *)

Dot(v, w) == v[1] * w[1] + v[2] * w[2]
Norm(v) == CHOOSE r \in 0..(Dot(v, v)) : r * r = Dot(v, v)

\* np.dot(vec1, vec2) / (np.linalg.norm(vec1) * np.linalg.norm(vec2)), as a fraction
cosine_similarity(vec1, vec2) == [num |-> Dot(vec1, vec2), den |-> Norm(vec1) * Norm(vec2)]
Greater(a, b) == a.num * b.den > b.num * a.den

\* itertools.combinations(range(n), 2), in its order
RECURSIVE Combinations(_, _, _)
Combinations(n, i, j) ==
    IF i >= n THEN <<>>
    ELSE IF j > n THEN Combinations(n, i + 1, i + 2)
    ELSE <<<<i, j>>>> \o Combinations(n, i, j + 1)

PyTuple(a, b) == <<"tuple", <<a, b>>>>

\* the for loop of most_similar: the locals after the pairs from position k on
RECURSIVE MostSimilarLoop(_, _, _, _)
MostSimilarLoop(embeddings, pairs, k, locals) ==
    IF k > Len(pairs) THEN locals
    ELSE LET phrase1 == embeddings[pairs[k][1]][1]
             phrase2 == embeddings[pairs[k][2]][1]
             similarity == cosine_similarity(embeddings[pairs[k][1]][2], embeddings[pairs[k][2]][2])
         IN  MostSimilarLoop(embeddings, pairs, k + 1,
                 IF Greater(similarity, locals.max_similarity)
                 THEN [max_similarity |-> similarity, most_similar_pair |-> PyTuple(phrase1, phrase2)]
                 ELSE locals)

MostSimilarLocals(embeddings) ==
    MostSimilarLoop(Val(embeddings), Combinations(Len(Val(embeddings)), 1, 2), 1,
                    [max_similarity |-> [num |-> -1, den |-> 1], most_similar_pair |-> PyNone])

\* the body ends after the loop, with no return statement: the call yields None
most_similar(embeddings) ==
    LET locals == MostSimilarLocals(embeddings)
    IN  Did(Return(PyNone), NoEffects)

----------------------------------------------------------------------------
(* Python's reading of the program generate_sentiment_test_code emits: the  *)
(* value of "content" in the user message.                                  *)

LexFail == [ok |-> FALSE, s |-> <<>>, next |-> 0]
LexOk(s, n) == [ok |-> TRUE, s |-> s, next |-> n]

\* the body of a string literal from position i; triple: opened by three quotes
RECURSIVE LexBody(_, _, _, _)
LexBody(t, i, triple, acc) ==
    LET c == At(t, i) IN
    CASE c = "<eof>" -> LexFail
      [] c = "\"" ->
            IF ~triple THEN LexOk(acc, i + 1)
            ELSE IF At(t, i + 1) = "\"" /\ At(t, i + 2) = "\"" THEN LexOk(acc, i + 3)
            ELSE LexBody(t, i + 1, triple, Append(acc, c))
      [] c = "\n" -> IF triple THEN LexBody(t, i + 1, triple, Append(acc, c)) ELSE LexFail
      [] c = "\\" ->
            LET d == At(t, i + 1) IN
            CASE d = "<eof>" -> LexFail
              [] d = "\n" -> LexBody(t, i + 2, triple, acc)
              [] d = "n"  -> LexBody(t, i + 2, triple, Append(acc, "\n"))
              [] d \in {"\\", "\""} -> LexBody(t, i + 2, triple, Append(acc, d))
              [] OTHER -> LexBody(t, i + 2, triple, acc \o <<"\\", d>>)
      [] OTHER -> LexBody(t, i + 1, triple, Append(acc, c))

LexLiteral(t, i) ==
    IF At(t, i + 1) = "\"" /\ At(t, i + 2) = "\""
    THEN LexBody(t, i + 3, TRUE, <<>>)
    ELSE LexBody(t, i + 1, FALSE, <<>>)

\* white space between tokens inside the braces: blanks, line ends, and a
\* backslash before a line end
RECURSIVE SkipBlank(_, _)
SkipBlank(t, i) ==
    IF At(t, i) \in Whitespace THEN SkipBlank(t, i + 1)
    ELSE IF At(t, i) = "\\" /\ At(t, i + 1) = "\n" THEN SkipBlank(t, i + 2)
    ELSE i

\* adjacent string literals from position i make one string
RECURSIVE LexLiterals(_, _, _)
LexLiterals(t, i, acc) ==
    LET r == LexLiteral(t, i) IN
    IF ~r.ok THEN LexFail
    ELSE IF At(t, SkipBlank(t, r.next)) = "\"" THEN LexLiterals(t, SkipBlank(t, r.next), acc \o r.s)
    ELSE LexOk(acc \o r.s, SkipBlank(t, r.next))

IndexOf(t, c) == CHOOSE i \in DOMAIN t : t[i] = c /\ \A j \in 1..(i - 1) : t[j] # c

\* the messages of the payload the program defines, or a SyntaxError
ProgramMessages(program) ==
    LET t == Val(program)
        open == IndexOf(t, SentimentUserOpen)
        r == LexLiterals(t, open + 1, <<>>)
    IN  IF /\ r.ok
           /\ SubSeq(t, r.next, Len(t)) = <<"}", "\n", SentimentEpilogue, "\n">>
           /\ SubSeq(t, 1, open) = <<"\n", SentimentPrelude, "\n", SentimentSystemMessage, "\n", SentimentUserOpen>>
        THEN Return(PyList(<< PyDict(<< <<Lit("role"), Lit("system")>>,
                                        <<Lit("content"), Lit("Analyze the sentiment of the following text and classify it as GOOD, BAD, or NEUTRAL.")>> >>),
                              PyDict(<< <<Lit("role"), Lit("user")>>,
                                        <<Lit("content"), PyStr(r.s)>> >>) >>))
        ELSE Raise("SyntaxError")

----------------------------------------------------------------------------
(* The inputs the calls are given.                                          *)

\* texts: "z" a plain character, then the ones a reader acts on
TextChars == {"z", "n", "\"", "\\", "{", "\n"}
Texts == {PyStr(t) : t \in SeqsUpTo(TextChars, MaxText)}

\* field objects: a "field" and a "type" key each
FieldNames == {Lit("state"), PyStr(<<"q", "\"">>)}
FieldTypes == {Lit("string"), Lit("number")}
FieldObjects == {PyDict(<< <<Lit("field"), f>>, <<Lit("type"), t>> >>) : f \in FieldNames, t \in FieldTypes}
FieldLists == {PyList(l) : l \in SeqsUpTo(FieldObjects, MaxFields)}

\* verification messages
Messages == {PyStr(m) : m \in {<<"z">>, <<"\"">>, <<"\\", "n">>, <<"\n">>, <<NonAscii, "z">>}}
MessageLists == {PyList(l) : l \in SeqsUpTo(Messages, MaxMessages)}

\* what open(image_path, "rb") finds
ByteValues == {0, 77, 255}
MissingFile == [exists |-> FALSE, bytes |-> <<>>]
Files == {MissingFile} \cup {[exists |-> TRUE, bytes |-> b] : b \in SeqsUpTo(ByteValues, MaxBytes)}
ImagePaths == {Lit("daniel.png")}

\* what requests.post comes back with
Unreachable == [connected |-> FALSE, status |-> 0, body |-> <<>>]
UsageBody(usage) == json_dumps(PyDict(<< <<Lit("id"), Lit("chatcmpl")>>, <<Lit("usage"), usage>> >>))
PromptTokensBody(n) == UsageBody(PyDict(<< <<Lit("prompt_tokens"), PyInt(n)>>, <<Lit("total_tokens"), PyInt(n)>> >>))
ResponseBodies ==
    {<<"upstream error">>,
     json_dumps(PyList(<<>>)),
     json_dumps(PyDict(<< <<Lit("error"), Lit("invalid token")>> >>)),
     UsageBody(PyNone),
     UsageBody(PyDict(<< <<Lit("total_tokens"), PyInt(0)>> >>))}
    \cup {PromptTokensBody(n) : n \in 0..MaxTokens}
StatusCodes == {200, 429, 500}
Responses == {Unreachable} \cup {[connected |-> TRUE, status |-> c, body |-> b] : c \in StatusCodes, b \in ResponseBodies}
TokenTexts == {Lit("List only the valid English words from these: E, 46ZuR2ZxK"), PyStr(<<"z", "\"">>)}

\* embeddings: phrase i mapped to a vector
Vectors == {<<1, 0>>, <<0, 1>>, <<-1, 0>>, <<3, 4>>}
Phrase(i) == PyStr(<<"phrase", ToString(i)>>)
Embeddings == {PyDict([i \in 1..k |-> <<Phrase(i), v[i]>>]) : k \in 0..MaxPhrases, v \in [1..MaxPhrases -> Vectors]}

\* the .env file load_dotenv finds
DotenvFiles == {[exists |-> FALSE, token |-> NoValue],
                [exists |-> TRUE, token |-> NoValue],
                [exists |-> TRUE, token |-> "token-of-dotenv"]}

NoExt == [net |-> Unreachable, file |-> MissingFile]
NoCall == [fn |-> "", arg |-> PyNone, ext |-> NoExt, out |-> Return(PyNone), eff |-> NoEffects]

----------------------------------------------------------------------------
(* The state machine.                                                       *)

Init ==
    /\ loaded = FALSE
    /\ environ \in {NoValue, "token-of-shell"}
    /\ effects = NoEffects
    /\ calls = <<>>
    /\ last = NoCall
    /\ pc = 0
    /\ crashed = 0
    /\ stdout = <<>>

\* the module body: load_dotenv(), the defs; asMain: run as a script
Load(asMain) ==
    /\ ~loaded
    /\ \E dotenv \in DotenvFiles :
          /\ effects' = effects \o load_dotenv(dotenv).eff
          /\ environ' = EnvAfter(environ, load_dotenv(dotenv).eff)
    /\ loaded' = TRUE
    /\ pc' = IF asMain THEN 1 ELSE 0
    /\ UNCHANGED <<calls, last, crashed, stdout>>

\* one call and what it leaves behind
Record(fn, arg, ext, did) ==
    /\ last' = [fn |-> fn, arg |-> arg, ext |-> ext, out |-> did.out, eff |-> did.eff]
    /\ calls' = Append(calls, [fn |-> fn, arg |-> arg, ext |-> ext, out |-> did.out])
    /\ effects' = effects \o did.eff
    /\ environ' = EnvAfter(environ, did.eff)

\* a call on the imported module
Invoke(fn, arg, ext, did) ==
    /\ loaded
    /\ pc = 0
    /\ Record(fn, arg, ext, did)
    /\ UNCHANGED <<loaded, pc, crashed, stdout>>

Call_generate_sentiment_test_code(texts) ==
    \E text \in texts :
        Invoke("generate_sentiment_test_code", text, NoExt, generate_sentiment_test_code(text))

Call_process_and_count_tokens(texts, responses) ==
    \E text \in texts, net \in responses :
        Invoke("process_and_count_tokens", text, [NoExt EXCEPT !.net = net],
               process_and_count_tokens(text, net))

Call_generate_openai_address_request(lists) ==
    \E fields \in lists :
        Invoke("generate_openai_address_request", fields, NoExt,
               generate_openai_address_request(fields))

Call_base64_encoding(files) ==
    \E image_path \in ImagePaths, file \in files :
        Invoke("base64_encoding", image_path, [NoExt EXCEPT !.file = file],
               base64_encoding(image_path, file))

Call_generate_embedding_request(lists) ==
    \E messages \in lists :
        Invoke("generate_embedding_request", messages, NoExt, generate_embedding_request(messages))

Call_return_most_similar_function ==
    Invoke("return_most_similar_function", PyNone, NoExt, return_most_similar_function)

Call_most_similar(mappings) ==
    \E embeddings \in mappings :
        Invoke("most_similar", embeddings, NoExt, most_similar(embeddings))

Call_docs_similarity_api_endpoint ==
    Invoke("docs_similarity_api_endpoint", PyNone, NoExt, docs_similarity_api_endpoint)

Call_employee_queries_api_endpoint ==
    Invoke("employee_queries_api_endpoint", PyNone, NoExt, employee_queries_api_endpoint)

Call_generate_prompt ==
    Invoke("generate_prompt", PyNone, NoExt, generate_prompt)

\* the __main__ block: step k prints the header of Qk, then the value of its call
Header(k) == PyStr(<<"=================Q", ToString(k), "====================">>)
MainTestText == Lit("Sx RF 8  sBx5X3K  ywpr55N4n s O ssI  6cjrU Qkn0sZx")
MainText == Lit("List only the valid English words from these: E, 46ZuR2ZxK, 8Ojovt, WSt4wQB, yYyTMKkpnp, tc1Mn2g2, wNKg7, XBxgkeIswj, osJIA, 8dUJ, reAe0zBk")
MainFields ==
    PyDict(<< <<Lit("state"), PyDict(<< <<Lit("type"), Lit("string")>> >>)>>,
              <<Lit("county"), PyDict(<< <<Lit("type"), Lit("string")>> >>)>>,
              <<Lit("longitude"), PyDict(<< <<Lit("type"), Lit("number")>> >>)>> >>)
MainImagePath == Lit("daniel.png")
MainMessages ==
    PyList(<< Lit("Dear user, please verify your transaction code 10389 sent to daniel.putta@gramener.com"),
              Lit("Dear user, please verify your transaction code 33454 sent to daniel.putta@gramener.com") >>)

MainFn(k) ==
    << "generate_sentiment_test_code", "process_and_count_tokens", "generate_openai_address_request",
       "base64_encoding", "generate_embedding_request", "return_most_similar_function",
       "docs_similarity_api_endpoint", "employee_queries_api_endpoint", "generate_prompt" >>[k]

MainArg(k) ==
    << MainTestText, MainText, MainFields, MainImagePath, MainMessages,
       PyNone, PyNone, PyNone, PyNone >>[k]

MainCall(k, net, file) ==
    CASE k = 1 -> generate_sentiment_test_code(MainTestText)
      [] k = 2 -> process_and_count_tokens(MainText, net)
      [] k = 3 -> generate_openai_address_request(MainFields)
      [] k = 4 -> base64_encoding(MainImagePath, file)
      [] k = 5 -> generate_embedding_request(MainMessages)
      [] k = 6 -> return_most_similar_function
      [] k = 7 -> docs_similarity_api_endpoint
      [] k = 8 -> employee_queries_api_endpoint
      [] k = 9 -> generate_prompt

MainExt(k, net, file) ==
    [net |-> IF k = 2 THEN net ELSE Unreachable, file |-> IF k = 4 THEN file ELSE MissingFile]

MainStep ==
    /\ loaded
    /\ pc \in 1..9
    /\ crashed = 0
    /\ \E net \in Responses, file \in Files :
          LET did == MainCall(pc, net, file) IN
          /\ Record(MainFn(pc), MainArg(pc), MainExt(pc, net, file), did)
          /\ IF did.out.kind = "raise"
             THEN /\ stdout' = Append(stdout, Header(pc))
                  /\ crashed' = pc
                  /\ pc' = pc
             ELSE /\ stdout' = stdout \o <<Header(pc), did.out.value>>
                  /\ crashed' = 0
                  /\ pc' = pc + 1
    /\ UNCHANGED loaded

\* the arguments given in the runs of call sequences
FewTexts == {PyStr(<<"z">>), PyStr(<<"\"">>)}
FewResponses ==
    {Unreachable,
     [connected |-> TRUE, status |-> 200, body |-> PromptTokensBody(1)],
     [connected |-> TRUE, status |-> 500, body |-> PromptTokensBody(1)],
     [connected |-> TRUE, status |-> 200, body |-> PromptTokensBody(0)],
     [connected |-> TRUE, status |-> 500, body |-> <<"upstream error">>],
     [connected |-> TRUE, status |-> 200, body |-> UsageBody(PyNone)]}
FewFieldLists == {PyList(<<>>), PyList(<<PyDict(<< <<Lit("field"), Lit("state")>>, <<Lit("type"), Lit("string")>> >>)>>)}
FewFiles == {MissingFile, [exists |-> TRUE, bytes |-> <<77>>]}
FewMessageLists == {PyList(<<>>), PyList(<<PyStr(<<"z">>)>>), PyList(<<PyStr(<<"z">>), PyStr(<<"z">>)>>)}
FewEmbeddings == {PyDict(<< <<Phrase(1), <<1, 0>>>>, <<Phrase(2), <<3, 4>>>> >>)}

\* a sequence of calls on the imported module, or a run of the script
Budget == Len(calls) < MaxCalls

Next ==
    \/ \E asMain \in BOOLEAN : Load(asMain)
    \/ MainStep
    \/ Budget /\ Call_generate_sentiment_test_code(FewTexts)
    \/ Budget /\ Call_process_and_count_tokens({MainText}, FewResponses)
    \/ Budget /\ Call_generate_openai_address_request(FewFieldLists)
    \/ Budget /\ Call_base64_encoding(FewFiles)
    \/ Budget /\ Call_generate_embedding_request(FewMessageLists)
    \/ Budget /\ Call_return_most_similar_function
    \/ Budget /\ Call_most_similar(FewEmbeddings)
    \/ Budget /\ Call_docs_similarity_api_endpoint
    \/ Budget /\ Call_employee_queries_api_endpoint
    \/ Budget /\ Call_generate_prompt

Spec == Init /\ [][Next]_vars

\* one call on the imported module, its arguments drawn from the whole sets
First == calls = <<>>

NextOne ==
    \/ Load(FALSE)
    \/ First /\ Call_generate_sentiment_test_code(Texts)
    \/ First /\ Call_process_and_count_tokens(TokenTexts, Responses)
    \/ First /\ Call_generate_openai_address_request(FieldLists)
    \/ First /\ Call_base64_encoding(Files)
    \/ First /\ Call_generate_embedding_request(MessageLists)
    \/ First /\ Call_most_similar(Embeddings)

SpecOne == Init /\ [][NextOne]_vars

----------------------------------------------------------------------------
(* The claims.                                                              *)

\* v[key] on a document read back from JSON
Get(v, key) == Lookup(Val(v), Lit(key))
Returned(fn) == last.fn = fn /\ last.out.kind = "return"
Document == json_loads(Val(last.out.value))

FieldOf(item) == Lookup(Val(item), Lit("field"))
TypeOf(item) == Lookup(Val(item), Lit("type"))
\* the position of the last item of the list that names the field of item i
LastNaming(list, i) ==
    CHOOSE j \in DOMAIN list :
        /\ FieldOf(list[j]) = FieldOf(list[i])
        /\ \A k \in DOMAIN list : FieldOf(list[k]) = FieldOf(list[i]) => k <= j

AddressItems == Get(Get(Get(Get(Document.value, "response_format"), "properties"), "addresses"), "items")

(* C1: for every list of objects with a "field" and a "type" key, the empty *)
(* list included, generate_openai_address_request returns a text that is    *)
(* valid JSON, in which items.properties holds exactly one entry per field  *)
(* name of the input, the name mapped to {"type": the type given with it}   *)
(* (the type of the name's last item when a name comes more than once), and *)
(* items.required lists exactly those names, each once.                     *)
C1_AddressRequestSchema ==
    (last.fn = "generate_openai_address_request" /\ last.arg \in FieldLists) =>
        /\ last.out.kind = "return"
        /\ Document.kind = "return"
        /\ LET fields == Val(last.arg)
               names == {FieldOf(fields[i]) : i \in DOMAIN fields}
               properties == Val(Get(AddressItems, "properties"))
               required == Val(Get(AddressItems, "required"))
           IN  /\ Range(Keys(properties)) = names
               /\ Len(properties) = Cardinality(names)
               /\ \A i \in DOMAIN fields :
                     Lookup(properties, FieldOf(fields[i]))
                         = PyDict(<< <<Lit("type"), TypeOf(fields[LastNaming(fields, i)])>> >>)
               /\ Range(required) = names
               /\ Len(required) = Cardinality(names)

\* a list of two objects naming different fields has been turned into a request
C1_Witness ==
    /\ Returned("generate_openai_address_request")
    /\ Len(Val(last.arg)) = 2
    /\ FieldOf(Val(last.arg)[1]) # FieldOf(Val(last.arg)[2])
    /\ TypeOf(Val(last.arg)[1]) # TypeOf(Val(last.arg)[2])
    /\ Len(Val(Get(AddressItems, "required"))) = 2

ImageUrlOfDocument ==
    Get(Get(Val(Get(Val(Get(Document.value, "messages"))[1], "content"))[2], "image_url"), "url")

(* C2: for every file that can be read, whatever its bytes (none included), *)
(* the payload of base64_encoding holds at                                  *)
(* messages[0].content[1].image_url.url the prefix "data:image/png;base64," *)
(* followed by text that base64-decodes to exactly the bytes of the file.   *)
C2_DataUrlDecodesToFile ==
    (last.fn = "base64_encoding" /\ last.ext.file.exists) =>
        /\ last.out.kind = "return"
        /\ Document.kind = "return"
        /\ Head(Val(ImageUrlOfDocument)) = DataUrlPrefix
        /\ b64decode(Tail(Val(ImageUrlOfDocument))) = Return(last.ext.file.bytes)

\* a file whose length is no multiple of three, so that the text is padded
C2_Witness ==
    /\ Returned("base64_encoding")
    /\ Len(last.ext.file.bytes) = 2
    /\ last.ext.file.bytes[1] # last.ext.file.bytes[2]
    /\ Val(ImageUrlOfDocument)[Len(Val(ImageUrlOfDocument))] = "="

(* C3: for every list of strings (empty, or with repeated entries),         *)
(* generate_embedding_request returns valid JSON: an object with exactly    *)
(* the keys "model", which is "text-embedding-3-small", and "input", which  *)
(* is the given list: same length, same order, same multiplicity.           *)
C3_EmbeddingRequestKeepsInput ==
    last.fn = "generate_embedding_request" =>
        /\ last.out.kind = "return"
        /\ Document.kind = "return"
        /\ Tag(Document.value) = "dict"
        /\ Keys(Val(Document.value)) = <<Lit("model"), Lit("input")>>
        /\ Get(Document.value, "model") = Lit("text-embedding-3-small")
        /\ Get(Document.value, "input") = last.arg

\* a list that holds the same message twice, one with characters JSON escapes
C3_Witness ==
    /\ Returned("generate_embedding_request")
    /\ Len(Val(last.arg)) = 2
    /\ Val(last.arg)[1] = Val(last.arg)[2]
    /\ Val(last.arg)[1] = PyStr(<<"\\", "n">>)
    /\ Len(Val(Get(Document.value, "input"))) = 2

StepsPrinted(n) ==
    /\ Len(stdout) >= 2 * n
    /\ \A k \in 1..n : stdout[2 * k - 1] = Header(k)

(* C4: a run of the __main__ block prints nine outputs in sequence: for     *)
(* each k from 1 to 9 the header of Qk, then the output of step k, and the  *)
(* run reaches and prints the output of Q9, the network call (step 2) and   *)
(* the image read (step 4) having succeeded.                                *)
C4_MainPrintsNineOutputs ==
    ((pc = 10 \/ crashed # 0) /\ crashed \notin {2, 4}) =>
        /\ pc = 10
        /\ Len(stdout) = 18
        /\ StepsPrinted(9)

SameCall(a, b) == a.fn = b.fn /\ a.arg = b.arg /\ a.ext = b.ext

IsPost(e) == e.kind = "http_post" /\ e.by = "process_and_count_tokens"
IsImageRead(e) == e.kind = "read_file" /\ e.by = "base64_encoding"
IsDotenv(e) == e.by = "load_dotenv" /\ e.kind \in {"read_file", "set_env"}

(* C6, as stated: the only effects on the outside world, the loading of the *)
(* module included, are the POST of process_and_count_tokens and the file   *)
(* read of base64_encoding.                                                 *)
C6_OnlyPostAndImageRead ==
    \A i \in DOMAIN effects : IsPost(effects[i]) \/ IsImageRead(effects[i])

(* C6, amended: the effects are those two and, at load, load_dotenv's: it   *)
(* reads the .env file when there is one and sets the variables of it that  *)
(* the environment does not hold.  Nothing has an effect before the load,   *)
(* load_dotenv's effects come before all others, a call of                  *)
(* process_and_count_tokens has one POST as its only effect, a call of      *)
(* base64_encoding at most one file read, and a call of any other function  *)
(* has no effect.                                                           *)
C6_EffectsOfLoadPostAndImageRead ==
    /\ ~loaded => effects = NoEffects
    /\ \A i \in DOMAIN effects :
          \/ IsDotenv(effects[i]) /\ \A j \in 1..i : IsDotenv(effects[j])
          \/ IsPost(effects[i])
          \/ IsImageRead(effects[i])
    /\ last.fn = "process_and_count_tokens" => Len(last.eff) = 1 /\ IsPost(last.eff[1])
    /\ last.fn = "base64_encoding" => Len(last.eff) <= 1 /\ \A i \in DOMAIN last.eff : IsImageRead(last.eff[i])
    /\ last.fn \notin {"process_and_count_tokens", "base64_encoding"} => last.eff = NoEffects

\* the load has read .env and set the token, then a POST and an image read were made
C6_Witness ==
    /\ Len(effects) = 4
    /\ effects[1].kind = "read_file" /\ effects[1].by = "load_dotenv"
    /\ effects[2].kind = "set_env"
    /\ environ = "token-of-dotenv"
    /\ IsPost(effects[3])
    /\ IsImageRead(effects[4])
    /\ last.fn = "base64_encoding"

Count(seq, P(_)) == Cardinality({i \in DOMAIN seq : P(seq[i])})
IsTokenCall(c) == c.fn = "process_and_count_tokens"
IsAnyPost(e) == e.kind = "http_post"

(* C7: each call of process_and_count_tokens sends exactly one POST, never  *)
(* a second, whatever the status of the response; when the body of the      *)
(* response has a usage field with prompt_tokens the call returns that      *)
(* value as it is, for a status that is not 2xx too.                        *)
C7_OnePostAndTokensUnchanged ==
    /\ Count(effects, IsAnyPost) = Count(calls, IsTokenCall)
    /\ last.fn = "process_and_count_tokens" =>
          /\ Len(last.eff) = 1
          /\ last.eff[1].kind = "http_post"
          /\ last.eff[1].target = ApiUrl
          /\ \A n \in 0..MaxTokens :
                (last.ext.net.connected /\ last.ext.net.body = PromptTokensBody(n))
                    => last.out = Return(PyInt(n))

\* the second of two calls got a 500 whose body holds usage.prompt_tokens = 1
C7_Witness ==
    /\ Len(calls) = 2
    /\ IsTokenCall(calls[1])
    /\ last.fn = "process_and_count_tokens"
    /\ last.ext.net.status = 500
    /\ last.ext.net.body = PromptTokensBody(1)
    /\ last.out = Return(PyInt(1))
    /\ Count(effects, IsAnyPost) = 2

HasPromptTokens(net) == net.connected /\ \E n \in 0..MaxTokens : net.body = PromptTokensBody(n)

(* C8: faults are not handled.  A call of process_and_count_tokens whose    *)
(* request fails, or whose response holds no usage.prompt_tokens, and a     *)
(* call of base64_encoding on a path that cannot be opened, end in a fault  *)
(* and return nothing.  In __main__ a fault at step k ends the run: the     *)
(* header of Qk is the last thing printed.                                  *)
C8_FaultsPropagate ==
    /\ (last.fn = "process_and_count_tokens" /\ ~HasPromptTokens(last.ext.net)) => last.out.kind = "raise"
    /\ (last.fn = "base64_encoding" /\ ~last.ext.file.exists) => last.out.kind = "raise" /\ last.eff = NoEffects
    /\ crashed # 0 =>
          /\ pc = crashed
          /\ last.out.kind = "raise"
          /\ Len(stdout) = 2 * crashed - 1
          /\ StepsPrinted(crashed - 1)
          /\ stdout[Len(stdout)] = Header(crashed)
          /\ \A k \in (crashed + 1)..9 : Header(k) \notin Range(stdout)
          /\ ~ENABLED MainStep

\* the request of step 2 failed: the run stopped after the header of Q2
C8_Witness ==
    /\ crashed = 2
    /\ last.fn = "process_and_count_tokens"
    /\ ~last.ext.net.connected
    /\ last.out.kind = "raise"
    /\ Len(stdout) = 3

UserContentOf(messages) == Get(Val(messages)[2], "content")

(* C9: for every text, the program generate_sentiment_test_code returns     *)
(* defines a payload of exactly two messages, system then user, and the     *)
(* content of the user message is the text, character for character.        *)
C9_UserMessageIsTheText ==
    last.fn = "generate_sentiment_test_code" =>
        /\ last.out.kind = "return"
        /\ ProgramMessages(last.out.value).kind = "return"
        /\ Len(Val(ProgramMessages(last.out.value).value)) = 2
        /\ Get(Val(ProgramMessages(last.out.value).value)[1], "role") = Lit("system")
        /\ Get(Val(ProgramMessages(last.out.value).value)[2], "role") = Lit("user")
        /\ UserContentOf(ProgramMessages(last.out.value).value) = last.arg

SimilarityOf(embeddings, pair) ==
    cosine_similarity(Val(embeddings)[pair[1]][2], Val(embeddings)[pair[2]][2])

\* the first pair, in the order of combinations, that no pair is more similar than
BestPair(embeddings) ==
    LET pairs == Combinations(Len(Val(embeddings)), 1, 2)
        best == CHOOSE k \in DOMAIN pairs :
                    /\ \A m \in DOMAIN pairs :
                          ~Greater(SimilarityOf(embeddings, pairs[m]), SimilarityOf(embeddings, pairs[k]))
                    /\ \A m \in 1..(k - 1) :
                          Greater(SimilarityOf(embeddings, pairs[k]), SimilarityOf(embeddings, pairs[m]))
    IN  PyTuple(Val(embeddings)[pairs[best][1]][1], Val(embeddings)[pairs[best][2]][1])

(* C10: for every mapping of two phrases or more, calling the emitted       *)
(* most_similar yields the pair of phrases of the highest similarity, the   *)
(* first such pair in the order of iteration when several are.              *)
C10_MostSimilarYieldsBestPair ==
    (last.fn = "most_similar" /\ Len(Val(last.arg)) >= 2) =>
        last.out = Return(BestPair(last.arg))

\* the names of the list, each once, in the order in which they first come
FirstOccurrences(list) ==
    LET firsts == {i \in DOMAIN list : \A j \in 1..(i - 1) : FieldOf(list[j]) # FieldOf(list[i])}
        nth(k) == CHOOSE i \in firsts : Cardinality({j \in firsts : j < i}) = k - 1
    IN  [k \in 1..Cardinality(firsts) |-> FieldOf(list[nth(k)])]

HasRepeat(list) == \E i, j \in DOMAIN list : i < j /\ FieldOf(list[i]) = FieldOf(list[j])

(* C11: when the list given to generate_openai_address_request names a      *)
(* field more than once, items.required holds each name exactly once, in    *)
(* the order of the names' first occurrences, items.properties has the same *)
(* keys, and the type recorded for a repeated name is that of its last      *)
(* occurrence; the fixed parts (the model, the system and user messages,    *)
(* the top-level required = ["addresses"], additionalProperties false at    *)
(* both levels) are the same for every input.                               *)
C11_RepeatedFieldsStayConsistent ==
    (last.fn = "generate_openai_address_request" /\ last.arg \in FieldLists) =>
        /\ last.out.kind = "return"
        /\ Document.kind = "return"
        /\ LET fields == Val(last.arg)
               format == Get(Document.value, "response_format")
           IN  /\ Val(Get(AddressItems, "required")) = FirstOccurrences(fields)
               /\ Keys(Val(Get(AddressItems, "properties"))) = FirstOccurrences(fields)
               /\ \A i \in DOMAIN fields :
                     (\A j \in (i + 1)..Len(fields) : FieldOf(fields[j]) # FieldOf(fields[i]))
                         => Get(Lookup(Val(Get(AddressItems, "properties")), FieldOf(fields[i])), "type")
                                = TypeOf(fields[i])
               /\ Get(Document.value, "model") = Lit("gpt-4o-mini")
               /\ Get(Document.value, "messages")
                     = PyList(<< PyDict(<< <<Lit("role"), Lit("system")>>,
                                           <<Lit("content"), Lit("Respond in JSON")>> >>),
                                 PyDict(<< <<Lit("role"), Lit("user")>>,
                                           <<Lit("content"), Lit("Generate 10 random addresses in the US")>> >>) >>)
               /\ Get(format, "required") = PyList(<<Lit("addresses")>>)
               /\ Get(format, "additionalProperties") = PyBool(FALSE)
               /\ Get(AddressItems, "additionalProperties") = PyBool(FALSE)

\* a name comes first and third with different types, another name between
C11_Witness ==
    /\ Returned("generate_openai_address_request")
    /\ Len(Val(last.arg)) = 3
    /\ FieldOf(Val(last.arg)[1]) = FieldOf(Val(last.arg)[3])
    /\ FieldOf(Val(last.arg)[1]) # FieldOf(Val(last.arg)[2])
    /\ TypeOf(Val(last.arg)[1]) # TypeOf(Val(last.arg)[3])
    /\ HasRepeat(Val(last.arg))
    /\ Val(Get(AddressItems, "required")) = <<FieldOf(Val(last.arg)[1]), FieldOf(Val(last.arg)[2])>>

=============================================================================
